---- MODULE Spec2Model ----
(***************************************************************************)
(* Crossover detection and signal ledger of the TQQQ trading bot.          *)
(*                                                                         *)
(* Dates are day numbers: the store keeps them as "%Y-%m-%d" text, whose   *)
(* text order is the calendar order, and one daily bar gives one date.     *)
(* Closes are small positive integers, or NaN for a close that SQLite      *)
(* stores as NULL.  A moving average is kept as an exact integer, the mean *)
(* times MA_SHORT * MA_LONG; for closes this small the float means of the  *)
(* code are exact to far below the distance between two different means,   *)
(* so comparing the scaled integers is comparing the floats.               *)
(***************************************************************************)
EXTENDS Integers, Sequences, FiniteSets, TLC

MA_SHORT == 5
MA_LONG == 30

\* Bounds of the model: the number of free closes that end a price history,
\* and the number of signals in one batch handed to the ledger.
MaxTail == 3
MaxBatch == 2
\* The number of rows in one data frame handed to save_prices directly.
MaxFrame == 2
\* The number of tickers in one call of fetch_all_tickers_parallel.
MaxRequested == 3

NaN == -1

Tickers == {"TQQQ", "YINN"}
Closes == {1, 2, 3, 4}
CloseValues == Closes \cup {NaN}
MaxDate == MA_LONG + MaxTail
Dates == 1..MaxDate
SignalTypes == {"GOLDEN_CROSS", "DEAD_CROSS"}

VARIABLES
    tqqq_prices,        \* table tqqq_prices: set of rows [ticker, date, close]
    crossover_signals,  \* table crossover_signals: rows in id order
    signals,            \* what the last detect_crossovers call returned
    status,             \* what the last get_current_status call returned
    call,               \* the last call of the ledger: its arguments and result
    main,               \* fetch_data.main of each running script: where it is, its locals
    notified,           \* the signals handed to trigger_all_notifications, in order
    alone,              \* per ticker, the database of a run of that ticker's calls alone
    result,             \* the last call's result on the shared database and alone
    uncommitted,        \* the ledger rows the open connection has inserted and not committed
    config,             \* tqqq.config: the window settings and how far start-up has come
    fetch,              \* the running call of fetch_all_tickers_parallel
    webhooks,           \* the list in webhooks.json, empty while there is no file
    db                  \* the database the migration script is run on: its tables by name

vars == <<tqqq_prices, crossover_signals, signals, status, call, main, notified,
          alone, result, uncommitted, config, fetch, webhooks, db>>

-----------------------------------------------------------------------------
\* load_prices: SELECT date, close ... WHERE ticker = ? ORDER BY date

\* Faulty variant, for comparison: TickerRows without the WHERE ticker = ? clause.
RowsOfAnyTicker(table, ticker) == table

TickerRows(table, ticker) == {r \in table : r.ticker = ticker}

RECURSIVE InAnyOrder(_)
InAnyOrder(rows) ==
    IF rows = {} THEN <<>>
    ELSE LET first == CHOOSE r \in rows : TRUE
         IN  <<first>> \o InAnyOrder(rows \ {first})

\* The rows dated d or later, by ascending date.
RECURSIVE OrderByDate(_, _)
OrderByDate(rows, d) ==
    IF d > MaxDate THEN <<>>
    ELSE InAnyOrder({r \in rows : r.date = d}) \o OrderByDate(rows, d + 1)

load_prices(table, ticker) ==
    LET ordered == OrderByDate(TickerRows(table, ticker), 1)
    IN  [i \in 1..Len(ordered) |-> [date |-> ordered[i].date, close |-> ordered[i].close]]

-----------------------------------------------------------------------------
\* df["close"].rolling(window).mean(), scaled by MA_SHORT * MA_LONG

RECURSIVE WindowSum(_, _, _)
WindowSum(df, i, window) ==
    IF window = 0 THEN 0 ELSE df[i].close + WindowSum(df, i - 1, window - 1)

RollingMean(df, i, window) ==
    IF i < window THEN NaN
    ELSE IF \E j \in (i - window + 1)..i : df[j].close = NaN THEN NaN
    ELSE WindowSum(df, i, window) * ((MA_SHORT * MA_LONG) \div window)

WithMovingAverages(df) ==
    [i \in 1..Len(df) |->
        [date |-> df[i].date, close |-> df[i].close,
         MA_SHORT |-> RollingMean(df, i, MA_SHORT),
         MA_LONG |-> RollingMean(df, i, MA_LONG)]]

dropna(df) ==
    SelectSeq(df, LAMBDA row : row.close # NaN /\ row.MA_SHORT # NaN /\ row.MA_LONG # NaN)

\* df["MA_SHORT"] > df["MA_LONG"]; a comparison with NaN is False.
\* Faulty variant, for comparison: ShortAbove with >= in place of the strict >.
ShortAboveOrEqual(row) ==
    row.MA_SHORT # NaN /\ row.MA_LONG # NaN /\ row.MA_SHORT >= row.MA_LONG

ShortAbove(row) ==
    row.MA_SHORT # NaN /\ row.MA_LONG # NaN /\ row.MA_SHORT > row.MA_LONG

\* Faulty variant, for comparison: Signal with the two moving averages exchanged.
SignalWithAveragesExchanged(ticker, row, signal_type) ==
    [ticker |-> ticker, date |-> row.date, signal_type |-> signal_type,
     close_price |-> row.close, ma5 |-> row.MA_LONG, ma30 |-> row.MA_SHORT]

Signal(ticker, row, signal_type) ==
    [ticker |-> ticker, date |-> row.date, signal_type |-> signal_type,
     close_price |-> row.close, ma5 |-> row.MA_SHORT, ma30 |-> row.MA_LONG]

\* The rows of df[mask] from row i on, as signals of one type.
RECURSIVE RowSignals(_, _, _, _, _)
RowSignals(ticker, df, i, mask, signal_type) ==
    IF i > Len(df) THEN <<>>
    ELSE (IF mask[i] THEN <<Signal(ticker, df[i], signal_type)>> ELSE <<>>)
         \o RowSignals(ticker, df, i + 1, mask, signal_type)

\* The row filters of detect_crossovers.  prev_short_above is shift(1) of
\* short_above: the first row has NaN there, and NaN == False and NaN == True
\* are both False.
\* Faulty variant, for comparison: IsGolden without the comparison to the previous row.
IsGoldenIgnoringPrev(short_above, i) == short_above[i] /\ i > 1

IsGolden(short_above, i) == short_above[i] /\ i > 1 /\ ~short_above[i - 1]

\* Faulty variant, for comparison: IsDead with the missing previous value of the first row taken as True.
IsDeadFromFirstRow(short_above, i) == ~short_above[i] /\ (i = 1 \/ short_above[i - 1])

IsDead(short_above, i) == ~short_above[i] /\ i > 1 /\ short_above[i - 1]

\* detect_crossovers after the length check.
\* Faulty variant, for comparison: Crossovers with the two loops in the opposite order.
CrossoversDeadFirst(ticker, df) ==
    LET rows == dropna(WithMovingAverages(df))
        short_above == [i \in 1..Len(rows) |-> ShortAbove(rows[i])]
        golden == [i \in 1..Len(rows) |-> IsGolden(short_above, i)]
        dead == [i \in 1..Len(rows) |-> IsDead(short_above, i)]
    IN  RowSignals(ticker, rows, 1, dead, "DEAD_CROSS")
        \o RowSignals(ticker, rows, 1, golden, "GOLDEN_CROSS")

Crossovers(ticker, df) ==
    LET rows == dropna(WithMovingAverages(df))
        short_above == [i \in 1..Len(rows) |-> ShortAbove(rows[i])]
        golden == [i \in 1..Len(rows) |-> IsGolden(short_above, i)]
        dead == [i \in 1..Len(rows) |-> IsDead(short_above, i)]
    IN  RowSignals(ticker, rows, 1, golden, "GOLDEN_CROSS")
        \o RowSignals(ticker, rows, 1, dead, "DEAD_CROSS")

\* Faulty variant, for comparison: detect_crossovers on the most recent
\* MA_LONG + 1 rows only, df.tail(MA_LONG + 1).
DetectOnRecentRows(table, ticker) ==
    LET df == load_prices(table, ticker)
        recent == IF Len(df) > MA_LONG + 1 THEN SubSeq(df, Len(df) - MA_LONG, Len(df)) ELSE df
    IN  IF Len(df) < MA_LONG THEN <<>> ELSE Crossovers(ticker, recent)

detect_crossovers(table, ticker) ==
    LET df == load_prices(table, ticker)
    IN  IF Len(df) < MA_LONG THEN <<>> ELSE Crossovers(ticker, df)

\* get_current_status after the length check.
\* Faulty variant, for comparison: StatusOfLast reading the row before the last, df.iloc[-2].
StatusOfLastButOne(ticker, df) ==
    LET rows == WithMovingAverages(df)
        last == rows[Len(rows) - 1]
        is_bullish == ShortAbove(last)
    IN  [ticker |-> ticker, date |-> last.date,
         status |-> IF is_bullish THEN "BULLISH" ELSE "BEARISH",
         close |-> last.close, ma_short |-> last.MA_SHORT, ma_long |-> last.MA_LONG,
         gap |-> IF last.MA_SHORT = NaN \/ last.MA_LONG = NaN THEN NaN
                 ELSE last.MA_SHORT - last.MA_LONG]

\* Faulty variant, for comparison: StatusOfLast with the gap taken as long minus short.
StatusWithGapReversed(ticker, df) ==
    LET rows == WithMovingAverages(df)
        last == rows[Len(rows)]
        is_bullish == ShortAbove(last)
    IN  [ticker |-> ticker, date |-> last.date,
         status |-> IF is_bullish THEN "BULLISH" ELSE "BEARISH",
         close |-> last.close, ma_short |-> last.MA_SHORT, ma_long |-> last.MA_LONG,
         gap |-> IF last.MA_SHORT = NaN \/ last.MA_LONG = NaN THEN NaN
                 ELSE last.MA_LONG - last.MA_SHORT]

StatusOfLast(ticker, df) ==
    LET rows == WithMovingAverages(df)
        last == rows[Len(rows)]
        is_bullish == ShortAbove(last)
    IN  [ticker |-> ticker, date |-> last.date,
         status |-> IF is_bullish THEN "BULLISH" ELSE "BEARISH",
         close |-> last.close, ma_short |-> last.MA_SHORT, ma_long |-> last.MA_LONG,
         gap |-> IF last.MA_SHORT = NaN \/ last.MA_LONG = NaN THEN NaN
                 ELSE last.MA_SHORT - last.MA_LONG]

\* Faulty variant, for comparison: InsufficientData guarding on MA_SHORT in place of MA_LONG.
StatusGuardShortWindow(df) == Len(df) < MA_SHORT

InsufficientData(df) == Len(df) < MA_LONG

get_current_status(table, ticker) ==
    LET df == load_prices(table, ticker)
    IN  IF InsufficientData(df) THEN [ticker |-> ticker, status |-> "INSUFFICIENT_DATA"]
        ELSE StatusOfLast(ticker, df)

-----------------------------------------------------------------------------
\* The signal ledger.  A row of crossover_signals has the columns ticker,
\* date, signal_type, close_price, ma5, ma30; its id is its place in the
\* sequence (AUTOINCREMENT, and no row is ever deleted).

\* SELECT 1 FROM crossover_signals WHERE ticker = ? AND date = ? AND signal_type = ?
\* Faulty variant, for comparison: SelectKey without the ticker column in the WHERE clause.
SelectAnyTicker(table, ticker, date, signal_type) ==
    \E i \in 1..Len(table) : table[i].date = date /\ table[i].signal_type = signal_type

SelectKey(table, ticker, date, signal_type) ==
    \E i \in 1..Len(table) :
        /\ table[i].ticker = ticker
        /\ table[i].date = date
        /\ table[i].signal_type = signal_type

RECURSIVE GetNewLoop(_, _, _, _, _)
GetNewLoop(table, ticker, sigs, i, new) ==
    IF i > Len(sigs) THEN new
    ELSE GetNewLoop(table, ticker, sigs, i + 1,
                    IF SelectKey(table, ticker, sigs[i].date, sigs[i].signal_type)
                    THEN new ELSE Append(new, sigs[i]))

\* Faulty variant, for comparison: get_new_signals without the lookup.
GetNewWithoutLookup(table, ticker, sigs) == sigs

get_new_signals(table, ticker, sigs) == GetNewLoop(table, ticker, sigs, 1, <<>>)

LedgerRow(ticker, signal) ==
    [ticker |-> ticker, date |-> signal.date, signal_type |-> signal.signal_type,
     close_price |-> signal.close_price, ma5 |-> signal.ma5, ma30 |-> signal.ma30]

\* INSERT OR IGNORE under UNIQUE(ticker, date, signal_type): the table after
\* the statement, and cursor.rowcount.
\* Faulty variant, for comparison: InsertOrIgnore without the UNIQUE constraint.
InsertAlways(table, row) == Append(table, row)

\* Faulty variant, for comparison: InsertOrIgnore as INSERT OR REPLACE, which
\* deletes the row of the key and inserts the new one under a new id.
InsertOrReplaceByKey(table, row) ==
    SelectSeq(table, LAMBDA r : ~(r.ticker = row.ticker /\ r.date = row.date
                                    /\ r.signal_type = row.signal_type))
        \o <<row>>

InsertOrIgnore(table, row) ==
    IF SelectKey(table, row.ticker, row.date, row.signal_type) THEN table
    ELSE Append(table, row)

\* Faulty variant, for comparison: RowCount counting statements in place of inserted rows.
RowCountOfStatement(table, row) == 1

RowCount(table, row) ==
    IF SelectKey(table, row.ticker, row.date, row.signal_type) THEN 0 ELSE 1

RECURSIVE SaveLoop(_, _, _, _, _)
SaveLoop(table, ticker, sigs, i, saved) ==
    IF i > Len(sigs) THEN [table |-> table, saved |-> saved]
    ELSE LET row == LedgerRow(ticker, sigs[i])
         IN  SaveLoop(InsertOrIgnore(table, row), ticker, sigs, i + 1,
                      saved + RowCount(table, row))

\* save_signals without a storage fault: the committed table and the count.
\* Faulty variant, for comparison: save_signals stopping after the first signal.
SaveFirstSignalOnly(table, ticker, sigs) ==
    SaveLoop(table, ticker, SubSeq(sigs, 1, 1), 1, 0)

save_signals(table, ticker, sigs) == SaveLoop(table, ticker, sigs, 1, 0)

-----------------------------------------------------------------------------
\* The price store.  A data frame of prices is a sequence of rows [date, close]
\* in date order.

\* SELECT MAX(date) FROM tqqq_prices WHERE ticker = ?; 0 stands for None.
get_last_date(table, ticker) ==
    IF TickerRows(table, ticker) = {} THEN 0
    ELSE CHOOSE d \in {r.date : r \in TickerRows(table, ticker)} :
            \A r \in TickerRows(table, ticker) : r.date <= d

\* INSERT OR REPLACE under PRIMARY KEY (ticker, date)
\* Faulty variant, for comparison: InsertOrReplace keeping the stored row (INSERT OR IGNORE).
InsertKeepingOld(table, row) ==
    IF \E r \in table : r.ticker = row.ticker /\ r.date = row.date THEN table
    ELSE table \cup {row}

InsertOrReplace(table, row) ==
    {r \in table : ~(r.ticker = row.ticker /\ r.date = row.date)} \cup {row}

RECURSIVE SavePricesLoop(_, _, _, _)
SavePricesLoop(table, ticker, df, i) ==
    IF i > Len(df) THEN table
    ELSE SavePricesLoop(
            InsertOrReplace(table, [ticker |-> ticker, date |-> df[i].date,
                                    close |-> df[i].close]),
            ticker, df, i + 1)

save_prices(table, ticker, df) == SavePricesLoop(table, ticker, df, 1)

-----------------------------------------------------------------------------
\* Price histories: a run of one close, followed by a tail of free closes.
\* The runs stop short of, at and past each window.

RunLengths == {0, MA_SHORT - 1, MA_SHORT, MA_LONG - 2, MA_LONG - 1, MA_LONG}

TailsOfLength(n) == [1..n -> CloseValues]
Tails == UNION {TailsOfLength(n) : n \in 0..MaxTail}

History(ticker, run, base, tail) ==
    {[ticker |-> ticker, date |-> d,
      close |-> IF d <= run THEN base ELSE tail[d - run]] : d \in 1..(run + Len(tail))}

Histories(ticker) ==
    {History(ticker, run, base, tail) : run \in RunLengths, base \in Closes, tail \in Tails}

-----------------------------------------------------------------------------
\* SpecDetect: the detector and the status evaluator on every history.

NoResult == <<>>
NoCall == [op |-> "none"]
NoScript == <<>>
NoDatabase == <<>>

\* tqqq/config.py as it is shipped, imported.
ShippedConfig == [MA_SHORT |-> MA_SHORT, MA_LONG |-> MA_LONG, pc |-> "imported"]

InitDetect ==
    /\ tqqq_prices \in Histories("TQQQ")
    /\ crossover_signals = <<>>
    /\ signals = NoResult
    /\ status = NoResult
    /\ call = NoCall
    /\ main = NoScript
    /\ notified = <<>>
    /\ alone = NoScript
    /\ result = NoCall
    /\ uncommitted = <<>>
    /\ config = ShippedConfig
    /\ fetch = NoCall
    /\ webhooks = <<>>
    /\ db = NoDatabase

DetectCrossovers(ticker) ==
    /\ signals' = <<detect_crossovers(tqqq_prices, ticker)>>
    /\ UNCHANGED <<tqqq_prices, crossover_signals, status, call, main, notified, alone, result,
                    uncommitted, config, fetch,
                    webhooks, db>>

GetCurrentStatus(ticker) ==
    /\ status' = <<get_current_status(tqqq_prices, ticker)>>
    /\ UNCHANGED <<tqqq_prices, crossover_signals, signals, call, main, notified, alone, result,
                    uncommitted, config, fetch,
                    webhooks, db>>

NextDetect ==
    \/ DetectCrossovers("TQQQ")
    \/ GetCurrentStatus("TQQQ")

SpecDetect == InitDetect /\ [][NextDetect]_vars

-----------------------------------------------------------------------------
\* Spec: the polling cycle, fetch_data.main run again and again with --ticker.

\* fetch_prices, the answer of the quote provider: with a start date the
\* daily bars from that date on, else the whole history of the last
\* HISTORY_DAYS days, which is never shorter than what was fetched before.
\* The provider's series is MA_LONG - 1 closes of 2 and then closes off 2.
FetchedSince(start, tail) == [i \in 1..Len(tail) |-> [date |-> start + i - 1, close |-> tail[i]]]

ProviderTails == UNION {[1..n -> {1, 3}] : n \in 0..MaxTail}

FetchedFrames(table, ticker, full) ==
    LET last_date == get_last_date(table, ticker)
    IN  IF full \/ last_date = 0
        THEN {FetchedSince(1, [i \in 1..(MA_LONG - 1) |-> 2] \o tail) :
                tail \in {t \in ProviderTails : MA_LONG - 1 + Len(t) >= last_date}}
        ELSE {FetchedSince(last_date + 1, tail) :
                tail \in {t \in ProviderTails : last_date + Len(t) < MA_LONG + MaxTail}}

Idle == [pc |-> "idle"]

\* main, lines 51-114: parse the arguments, fetch, save the prices.
FetchAndSavePrices(p, ticker, full, no_notify) ==
    /\ main[p].pc = "idle"
    /\ \E df \in FetchedFrames(tqqq_prices, ticker, full) :
          tqqq_prices' = IF Len(df) > 0 THEN save_prices(tqqq_prices, ticker, df)
                         ELSE tqqq_prices
    /\ main' = [main EXCEPT ![p] = [pc |-> "detect", ticker |-> ticker,
                                     no_notify |-> no_notify]]
    /\ UNCHANGED <<crossover_signals, signals, status, call, notified, alone, result,
                    uncommitted, config, fetch,
                    webhooks, db>>

\* main, lines 116-121 and 130-131: detect, filter, and stop if nothing is new.
DetectAndFilter(p) ==
    /\ main[p].pc = "detect"
    /\ LET all_signals == detect_crossovers(tqqq_prices, main[p].ticker)
           new_signals == get_new_signals(crossover_signals, main[p].ticker, all_signals)
       IN  main' = [main EXCEPT ![p] =
                IF new_signals # <<>>
                THEN [pc |-> "save", ticker |-> main[p].ticker,
                      no_notify |-> main[p].no_notify, new_signals |-> new_signals]
                ELSE Idle]
    /\ UNCHANGED <<tqqq_prices, crossover_signals, signals, status, call, notified, alone, result,
                    uncommitted, config, fetch,
                    webhooks, db>>

\* main, lines 122-126: record the new signals; with --no-notify that is all.
SaveNewSignals(p) ==
    /\ main[p].pc = "save"
    /\ crossover_signals' =
          save_signals(crossover_signals, main[p].ticker, main[p].new_signals).table
    /\ main' = [main EXCEPT ![p] =
            IF main[p].no_notify THEN Idle
            ELSE [pc |-> "notify", ticker |-> main[p].ticker,
                  new_signals |-> main[p].new_signals, i |-> 1]]
    /\ UNCHANGED <<tqqq_prices, signals, status, call, notified, alone, result,
                    uncommitted, config, fetch,
                    webhooks, db>>

\* main, lines 128-129: hand the next new signal to trigger_all_notifications.
\* log_to_file opens the events log outside any try block: when that raises,
\* the exception ends main.
Notify(p, raises) ==
    /\ main[p].pc = "notify"
    /\ notified' = Append(notified, main[p].new_signals[main[p].i])
    /\ main' = [main EXCEPT ![p] =
            IF raises \/ main[p].i = Len(main[p].new_signals) THEN Idle
            ELSE [main[p] EXCEPT !.i = main[p].i + 1]]
    /\ UNCHANGED <<tqqq_prices, crossover_signals, signals, status, call, alone, result,
                    uncommitted, config, fetch,
                    webhooks, db>>

Scripts == {"cron"}

Init ==
    /\ tqqq_prices = {}
    /\ crossover_signals = <<>>
    /\ signals = NoResult
    /\ status = NoResult
    /\ call = NoCall
    /\ main = [p \in Scripts |-> Idle]
    /\ notified = <<>>
    /\ alone = NoScript
    /\ result = NoCall
    /\ uncommitted = <<>>
    /\ config = ShippedConfig
    /\ fetch = NoCall
    /\ webhooks = <<>>
    /\ db = NoDatabase

Next ==
    \E p \in Scripts :
        \/ \E full, no_notify \in BOOLEAN : FetchAndSavePrices(p, "TQQQ", full, no_notify)
        \/ DetectAndFilter(p)
        \/ SaveNewSignals(p)
        \/ \E raises \in BOOLEAN : Notify(p, raises)

Spec == Init /\ [][Next]_vars

-----------------------------------------------------------------------------
\* SpecLedger: get_new_signals and save_signals called directly, for any
\* ticker, with any batch of signals, on one shared database.

PoolSignal(ticker, signal_type, close) ==
    [ticker |-> ticker, date |-> MA_LONG + 1, signal_type |-> signal_type,
     close_price |-> close, ma5 |-> close * MA_SHORT * MA_LONG,
     ma30 |-> 2 * MA_SHORT * MA_LONG]

\* One signal of each kind for each ticker, all on one date, and the TQQQ
\* golden cross once more as it is detected after its prices were overwritten.
SignalPool ==
    {PoolSignal(t, k, 1) : t \in Tickers, k \in SignalTypes}
        \cup {PoolSignal("TQQQ", "GOLDEN_CROSS", 3)}

Batches(ticker) ==
    UNION {[1..n -> {s \in SignalPool : s.ticker = ticker}] : n \in 0..MaxBatch}

InitLedger ==
    /\ tqqq_prices = {}
    /\ crossover_signals = <<>>
    /\ signals = NoResult
    /\ status = NoResult
    /\ call = NoCall
    /\ main = NoScript
    /\ notified = <<>>
    /\ alone = NoScript
    /\ result = NoCall
    /\ uncommitted = <<>>
    /\ config = ShippedConfig
    /\ fetch = NoCall
    /\ webhooks = <<>>
    /\ db = NoDatabase

\* What a statement on the open connection sees: the committed rows and the
\* rows of its own open transaction.
ConnectionView == crossover_signals \o uncommitted

GetNewSignals(ticker, sigs) ==
    /\ call' = [op |-> "get_new_signals", ticker |-> ticker, signals |-> sigs,
                result |-> get_new_signals(ConnectionView, ticker, sigs)]
    /\ UNCHANGED <<tqqq_prices, crossover_signals, signals, status, main, notified, alone, result,
                    uncommitted, config, fetch,
                    webhooks, db>>

\* save_signals to its end: conn.commit() commits whatever the connection's
\* transaction holds.
SaveSignals(ticker, sigs) ==
    LET done == save_signals(ConnectionView, ticker, sigs)
    IN  /\ crossover_signals' = done.table
        /\ uncommitted' = <<>>
        /\ call' = [op |-> "save_signals", ticker |-> ticker, signals |-> sigs,
                    result |-> done.saved]
        /\ UNCHANGED <<tqqq_prices, signals, status, main, notified, alone, result,
                    config, fetch,
                    webhooks, db>>

NextLedger ==
    \E ticker \in Tickers :
        \E sigs \in Batches(ticker) :
            \/ GetNewSignals(ticker, sigs)
            \/ SaveSignals(ticker, sigs)

SpecLedger == InitLedger /\ [][NextLedger]_vars

-----------------------------------------------------------------------------
\* SpecConnection: the ledger calls of one caller on one connection, where a
\* statement may raise a storage fault.  Neither get_new_signals nor
\* save_signals has a try block or a rollback: the exception leaves the
\* function, and the rows inserted before it stay in the connection's open
\* transaction unless SQLite itself rolled the transaction back.

StorageFault == "sqlite3.Error"

\* The connection's transaction after save_signals raised at its k-th
\* statement (statement Len(sigs) + 1 is conn.commit()).
RowsBeforeFault(ticker, sigs, k) ==
    LET done == SaveLoop(ConnectionView, ticker, SubSeq(sigs, 1, k - 1), 1, 0)
    IN  SubSeq(done.table, Len(crossover_signals) + 1, Len(done.table))

SaveSignalsFault(ticker, sigs, k, rolled_back) ==
    /\ k \in 1..(Len(sigs) + 1)
    /\ uncommitted' = IF rolled_back THEN <<>> ELSE RowsBeforeFault(ticker, sigs, k)
    /\ call' = [op |-> "save_signals", ticker |-> ticker, signals |-> sigs,
                error |-> StorageFault]
    /\ UNCHANGED <<tqqq_prices, crossover_signals, signals, status, main, notified, alone,
                    result, config, fetch,
                    webhooks, db>>

GetNewSignalsFault(ticker, sigs) ==
    /\ sigs # <<>>
    /\ call' = [op |-> "get_new_signals", ticker |-> ticker, signals |-> sigs,
                error |-> StorageFault]
    /\ UNCHANGED <<tqqq_prices, crossover_signals, signals, status, main, notified, alone,
                    result, uncommitted, config, fetch,
                    webhooks, db>>

\* save_prices on the same connection: its conn.commit() commits the open
\* transaction, the ledger rows in it included.
SavePrices(ticker, df) ==
    /\ tqqq_prices' = save_prices(tqqq_prices, ticker, df)
    /\ crossover_signals' = ConnectionView
    /\ uncommitted' = <<>>
    /\ call' = [op |-> "save_prices", ticker |-> ticker, df |-> df, result |-> Len(df)]
    /\ UNCHANGED <<signals, status, main, notified, alone, result, config, fetch,
                    webhooks, db>>

\* conn.close() with a transaction open rolls it back; the caller goes on
\* with a new connection.
CloseConnection ==
    /\ uncommitted' = <<>>
    /\ call' = [op |-> "close"]
    /\ UNCHANGED <<tqqq_prices, crossover_signals, signals, status, main, notified, alone,
                    result, config, fetch,
                    webhooks, db>>

OneBar == <<[date |-> 1, close |-> 1]>>

NextConnection ==
    \/ \E sigs \in Batches("TQQQ") :
          \/ GetNewSignals("TQQQ", sigs)
          \/ GetNewSignalsFault("TQQQ", sigs)
          \/ SaveSignals("TQQQ", sigs)
          \/ \E k \in 1..(MaxBatch + 1), rolled_back \in BOOLEAN :
                SaveSignalsFault("TQQQ", sigs, k, rolled_back)
    \/ SavePrices("TQQQ", OneBar)
    \/ CloseConnection

SpecConnection == InitLedger /\ [][NextConnection]_vars

-----------------------------------------------------------------------------
\* SpecPrices: save_prices called directly, for any ticker, with any data
\* frame of a few daily bars, in any order of dates and closes.

PriceFrames ==
    UNION {[1..n -> [date : 1..2, close : {1, 3}]] : n \in 0..MaxFrame}

NextPrices == \E ticker \in Tickers : \E df \in PriceFrames : SavePrices(ticker, df)

SpecPrices == InitLedger /\ [][NextPrices]_vars

-----------------------------------------------------------------------------
\* SpecOverlap: two runs of the polling script at once on one database, the
\* scheduled one and one started by hand, neither with --full.  Each has its
\* own connection; a step is one committed transaction or one read of
\* committed rows.

Overlapping == {"cron", "manual"}

InitOverlap ==
    /\ tqqq_prices = {}
    /\ crossover_signals = <<>>
    /\ signals = NoResult
    /\ status = NoResult
    /\ call = NoCall
    /\ main = [p \in Overlapping |-> Idle]
    /\ notified = <<>>
    /\ alone = NoScript
    /\ result = NoCall
    /\ uncommitted = <<>>
    /\ config = ShippedConfig
    /\ fetch = NoCall
    /\ webhooks = <<>>
    /\ db = NoDatabase

NextOverlap ==
    \E p \in Overlapping :
        \/ \E no_notify \in BOOLEAN : FetchAndSavePrices(p, "TQQQ", FALSE, no_notify)
        \/ DetectAndFilter(p)
        \/ SaveNewSignals(p)
        \/ \E raises \in BOOLEAN : Notify(p, raises)

SpecOverlap == InitOverlap /\ [][NextOverlap]_vars

-----------------------------------------------------------------------------
\* SpecGrow: a history that grows by incremental updates, with the detector
\* run between them.  The history starts as a constant run that stops short
\* of, or at, the long window.

\* fetch_prices with start_date the day after the last stored date: daily
\* bars for later dates only, some of them without a close.
LaterTails == UNION {[1..n -> {1, 3, NaN}] : n \in 1..MaxTail}

LaterFrames(table, ticker) ==
    LET last_date == get_last_date(table, ticker)
    IN  {FetchedSince(last_date + 1, tail) :
            tail \in {t \in LaterTails : last_date + Len(t) <= MaxDate}}

InitGrow ==
    /\ tqqq_prices \in {History("TQQQ", run, base, <<>>) :
                            run \in {MA_LONG - 1, MA_LONG}, base \in Closes}
    /\ crossover_signals = <<>>
    /\ signals = NoResult
    /\ status = NoResult
    /\ call = NoCall
    /\ main = NoScript
    /\ notified = <<>>
    /\ alone = NoScript
    /\ result = NoCall
    /\ uncommitted = <<>>
    /\ config = ShippedConfig
    /\ fetch = NoCall
    /\ webhooks = <<>>
    /\ db = NoDatabase

NextGrow ==
    \/ \E df \in LaterFrames(tqqq_prices, "TQQQ") : SavePrices("TQQQ", df)
    \/ DetectCrossovers("TQQQ")

SpecGrow == InitGrow /\ [][NextGrow]_vars

-----------------------------------------------------------------------------
\* SpecFaults: the polling cycle where a statement of get_new_signals or
\* save_signals may raise a storage fault.

\* main has no try block around lines 116-131: the exception leaves main and
\* ends the script, and the connection it drops rolls its transaction back.
\* Faulty variant, for comparison: Unhandled swallowing the exception of save_signals.
Swallowed(m) ==
    IF m.pc = "save" /\ ~m.no_notify
    THEN [pc |-> "notify", ticker |-> m.ticker, new_signals |-> m.new_signals, i |-> 1]
    ELSE Idle

Unhandled(m) == [pc |-> "idle", error |-> StorageFault]

\* main, line 119: a SELECT of get_new_signals raises.
DetectAndFilterFault(p) ==
    /\ main[p].pc = "detect"
    /\ detect_crossovers(tqqq_prices, main[p].ticker) # <<>>
    /\ main' = [main EXCEPT ![p] = Unhandled(main[p])]
    /\ UNCHANGED <<tqqq_prices, crossover_signals, signals, status, call, notified, alone,
                    result, uncommitted, config, fetch,
                    webhooks, db>>

\* main, line 123: the k-th statement of save_signals raises.
SaveNewSignalsFault(p, k) ==
    /\ main[p].pc = "save"
    /\ k \in 1..(Len(main[p].new_signals) + 1)
    /\ main' = [main EXCEPT ![p] = Unhandled(main[p])]
    /\ UNCHANGED <<tqqq_prices, crossover_signals, signals, status, call, notified, alone,
                    result, uncommitted, config, fetch,
                    webhooks, db>>

NextFaults ==
    \/ Next
    \/ \E p \in Scripts :
          \/ DetectAndFilterFault(p)
          \/ \E k \in 1..(MaxTail + 1) : SaveNewSignalsFault(p, k)

SpecFaults == Init /\ [][NextFaults]_vars

-----------------------------------------------------------------------------
\* SpecRetry: polling cycles of incremental updates where save_signals may
\* raise, with the call that raised kept in call as the traceback shows it.

\* Faulty variant, for comparison: SaveSignalsRaises where the rows inserted
\* before the fault stay in the ledger.
SaveSignalsRaisesKeepingRows(p, k) ==
    /\ main[p].pc = "save"
    /\ k \in 1..(Len(main[p].new_signals) + 1)
    /\ main' = [main EXCEPT ![p] = Unhandled(main[p])]
    /\ crossover_signals' =
          crossover_signals \o RowsBeforeFault(main[p].ticker, main[p].new_signals, k)
    /\ call' = [op |-> "save_signals", ticker |-> main[p].ticker,
                signals |-> main[p].new_signals, error |-> StorageFault]
    /\ UNCHANGED <<tqqq_prices, signals, status, notified, alone,
                    result, uncommitted, config, fetch,
                    webhooks, db>>

\* main, line 123: the k-th statement of save_signals raises.
SaveSignalsRaises(p, k) ==
    /\ main[p].pc = "save"
    /\ k \in 1..(Len(main[p].new_signals) + 1)
    /\ main' = [main EXCEPT ![p] = Unhandled(main[p])]
    /\ call' = [op |-> "save_signals", ticker |-> main[p].ticker,
                signals |-> main[p].new_signals, error |-> StorageFault]
    /\ UNCHANGED <<tqqq_prices, crossover_signals, signals, status, notified, alone,
                    result, uncommitted, config, fetch,
                    webhooks, db>>

NextRetry ==
    \E p \in Scripts :
        \/ \E no_notify \in BOOLEAN : FetchAndSavePrices(p, "TQQQ", FALSE, no_notify)
        \/ DetectAndFilter(p)
        \/ SaveNewSignals(p)
        \/ \E raises \in BOOLEAN : Notify(p, raises)
        \/ \E k \in 1..(MaxTail + 1) : SaveSignalsRaises(p, k)

SpecRetry == Init /\ [][NextRetry]_vars

-----------------------------------------------------------------------------
\* SpecConfig: start-up with the window settings somebody wrote into
\* tqqq/config.py, on an empty price store.  Importing the module runs two
\* assignments; nothing between the import and the calls compares the windows.

Windows == {1, MA_SHORT - 1, MA_SHORT, MA_SHORT + 1, MA_LONG - 1, MA_LONG, MA_LONG + 1}

InitConfig ==
    /\ tqqq_prices = {}
    /\ crossover_signals = <<>>
    /\ signals = NoResult
    /\ status = NoResult
    /\ call = NoCall
    /\ main = NoScript
    /\ notified = <<>>
    /\ alone = NoScript
    /\ result = NoCall
    /\ uncommitted = <<>>
    /\ config \in [MA_SHORT : Windows, MA_LONG : Windows, pc : {"edited"}]
    /\ fetch = NoCall
    /\ webhooks = <<>>
    /\ db = NoDatabase

\* from .config import MA_SHORT, MA_LONG
ImportConfig ==
    /\ config.pc = "edited"
    /\ config' = [config EXCEPT !.pc = "imported"]
    /\ UNCHANGED <<tqqq_prices, crossover_signals, signals, status, call, main, notified,
                    alone, result, uncommitted, fetch,
                    webhooks, db>>

\* The call of detect_crossovers or get_current_status is entered.
EnterDetector(function) ==
    /\ config.pc = "imported"
    /\ config' = [config EXCEPT !.pc = function]
    /\ UNCHANGED <<tqqq_prices, crossover_signals, signals, status, call, main, notified,
                    alone, result, uncommitted, fetch,
                    webhooks, db>>

\* detect_crossovers, lines 25-28: fewer rows than the long window.
ReturnNoSignals(ticker) ==
    /\ config.pc = "detect_crossovers"
    /\ Len(load_prices(tqqq_prices, ticker)) < config.MA_LONG
    /\ signals' = <<(<<>>)>>
    /\ config' = [config EXCEPT !.pc = "imported"]
    /\ UNCHANGED <<tqqq_prices, crossover_signals, status, call, main, notified,
                    alone, result, uncommitted, fetch,
                    webhooks, db>>

\* get_current_status, lines 78-81: fewer rows than the long window.
ReturnInsufficientData(ticker) ==
    /\ config.pc = "get_current_status"
    /\ Len(load_prices(tqqq_prices, ticker)) < config.MA_LONG
    /\ status' = <<[ticker |-> ticker, status |-> "INSUFFICIENT_DATA"]>>
    /\ config' = [config EXCEPT !.pc = "imported"]
    /\ UNCHANGED <<tqqq_prices, crossover_signals, signals, call, main, notified,
                    alone, result, uncommitted, fetch,
                    webhooks, db>>

NextConfig ==
    \/ ImportConfig
    \/ \E function \in {"detect_crossovers", "get_current_status"} : EnterDetector(function)
    \/ ReturnNoSignals("TQQQ")
    \/ ReturnInsufficientData("TQQQ")

SpecConfig == InitConfig /\ [][NextConfig]_vars

-----------------------------------------------------------------------------
\* SpecFetch: fetch_all_tickers_parallel.  One future per requested ticker,
\* run by a pool of MAX_WORKERS threads; as_completed hands the finished
\* futures to the caller's loop in any order.

MAX_WORKERS == 3

\* How the fetch_prices call of the i-th requested ticker ends: with that
\* ticker's data frame, or with an exception.
Fetched(ticker, i) == [raised |-> FALSE, ticker |-> ticker, future |-> i]
FetchFailed(ticker, i) == [raised |-> TRUE, ticker |-> ticker, future |-> i]

Requests == UNION {[1..n -> Tickers] : n \in 1..MaxRequested}

Running == {i \in DOMAIN fetch.futures : fetch.futures[i].state = "RUNNING"}

\* Lines 50-53: submit one fetch_prices call per ticker.
CallFetchAll(tickers) ==
    /\ IF fetch = NoCall THEN TRUE ELSE fetch.pc = "returned"
    /\ fetch' = [op |-> "fetch_all_tickers_parallel", pc |-> "as_completed",
                 tickers |-> tickers,
                 futures |-> [i \in 1..Len(tickers) |-> [state |-> "PENDING"]],
                 yielded |-> <<>>,
                 results |-> <<>>]
    /\ UNCHANGED <<tqqq_prices, crossover_signals, signals, status, call, main, notified,
                    alone, result, uncommitted, config,
                    webhooks, db>>

\* A free worker thread takes a pending future.
WorkerTakes(i) ==
    /\ fetch # NoCall
    /\ i \in DOMAIN fetch.futures
    /\ fetch.futures[i].state = "PENDING"
    /\ Cardinality(Running) < MAX_WORKERS
    /\ fetch' = [fetch EXCEPT !.futures[i] = [state |-> "RUNNING"]]
    /\ UNCHANGED <<tqqq_prices, crossover_signals, signals, status, call, main, notified,
                    alone, result, uncommitted, config,
                    webhooks, db>>

\* fetch_prices returns a data frame or raises.
WorkerFinishes(i, raises) ==
    /\ fetch # NoCall
    /\ i \in DOMAIN fetch.futures
    /\ fetch.futures[i].state = "RUNNING"
    /\ fetch' = [fetch EXCEPT !.futures[i] =
            [state |-> "FINISHED",
             outcome |-> IF raises THEN FetchFailed(fetch.tickers[i], i)
                         ELSE Fetched(fetch.tickers[i], i)]]
    /\ UNCHANGED <<tqqq_prices, crossover_signals, signals, status, call, main, notified,
                    alone, result, uncommitted, config,
                    webhooks, db>>

\* Lines 56-60: results[ticker] = future.result(), unless it raises.
\* Faulty variant, for comparison: Collect storing whatever the future holds.
CollectAnything(results, ticker, outcome) ==
    [t \in DOMAIN results \cup {ticker} |-> IF t = ticker THEN outcome ELSE results[t]]

Collect(results, ticker, outcome) ==
    IF outcome.raised THEN results
    ELSE [t \in DOMAIN results \cup {ticker} |-> IF t = ticker THEN outcome ELSE results[t]]

\* Line 55: as_completed yields a finished future it has not yielded yet.
AsCompletedYields(i) ==
    /\ fetch # NoCall
    /\ fetch.pc = "as_completed"
    /\ i \in DOMAIN fetch.futures
    /\ fetch.futures[i].state = "FINISHED"
    /\ \A k \in 1..Len(fetch.yielded) : fetch.yielded[k] # i
    /\ fetch' = [fetch EXCEPT
            !.yielded = Append(@, i),
            !.results = Collect(@, fetch.tickers[i], fetch.futures[i].outcome)]
    /\ UNCHANGED <<tqqq_prices, crossover_signals, signals, status, call, main, notified,
                    alone, result, uncommitted, config,
                    webhooks, db>>

\* Line 62: every future was yielded; the pool shuts down and the call returns.
ReturnResults ==
    /\ fetch # NoCall
    /\ fetch.pc = "as_completed"
    /\ Len(fetch.yielded) = Len(fetch.tickers)
    /\ fetch' = [fetch EXCEPT !.pc = "returned"]
    /\ UNCHANGED <<tqqq_prices, crossover_signals, signals, status, call, main, notified,
                    alone, result, uncommitted, config,
                    webhooks, db>>

NextFetch ==
    \/ \E tickers \in Requests : CallFetchAll(tickers)
    \/ \E i \in 1..MaxRequested :
          \/ WorkerTakes(i)
          \/ \E raises \in BOOLEAN : WorkerFinishes(i, raises)
          \/ AsCompletedYields(i)
    \/ ReturnResults

SpecFetch == InitLedger /\ [][NextFetch]_vars

-----------------------------------------------------------------------------
\* SpecRegistry: the webhook registry, tqqq/webhook_registry.py.  An entry of
\* webhooks.json has the keys id, url, name, type, enabled, tickers,
\* created_at and updated_at.  An optional argument is a set: empty for None,
\* else holding the value.  datetime.now() is a number.

None == {}
Urls == {"https://a", "https://b"}
Names == {None, {"ops"}}
WebhookTypes == {"generic", "slack"}
TickerLists == {None, {<<"TQQQ">>}}
Times == {1, 2}
DefaultNames == <<"Webhook 1", "Webhook 2", "Webhook 3", "Webhook 4">>

\* The index of the first entry with the url, 0 when there is none.
IndexOfUrl(list, url) ==
    IF \E i \in 1..Len(list) : list[i].url = url
    THEN CHOOSE i \in 1..Len(list) :
            list[i].url = url /\ \A j \in 1..(i - 1) : list[j].url # url
    ELSE 0

\* register_webhook, lines 49-57: the entry of an existing url, updated.
UpdatedEntry(wh, name, webhook_type, tickers, now) ==
    [wh EXCEPT !.name = IF name # None THEN CHOOSE n \in name : TRUE ELSE wh.name,
               !.type = webhook_type,
               !.tickers = IF tickers # None THEN CHOOSE t \in tickers : TRUE ELSE wh.tickers,
               !.updated_at = now]

\* register_webhook, lines 60-69: the entry of a new url.
NewEntry(list, url, name, webhook_type, tickers, now) ==
    [id |-> Len(list) + 1,
     url |-> url,
     name |-> IF name # None THEN CHOOSE n \in name : TRUE ELSE DefaultNames[Len(list) + 1],
     type |-> webhook_type,
     enabled |-> TRUE,
     tickers |-> IF tickers # None THEN CHOOSE t \in tickers : TRUE ELSE <<>>,
     created_at |-> now,
     updated_at |-> now]

\* Each function below returns the list it saves and the value it returns.
\* Faulty variant, for comparison: register_webhook without the search for
\* the url, adding an entry on every call.
RegisterWithoutLookup(list, url, name, webhook_type, tickers, now) ==
    [webhooks |-> Append(list, NewEntry(list, url, name, webhook_type, tickers, now)),
     result |-> NewEntry(list, url, name, webhook_type, tickers, now)]

register_webhook(list, url, name, webhook_type, tickers, now) ==
    LET i == IndexOfUrl(list, url)
    IN  IF i # 0
        THEN [webhooks |-> [list EXCEPT ![i] =
                              UpdatedEntry(list[i], name, webhook_type, tickers, now)],
              result |-> UpdatedEntry(list[i], name, webhook_type, tickers, now)]
        ELSE [webhooks |-> Append(list, NewEntry(list, url, name, webhook_type, tickers, now)),
              result |-> NewEntry(list, url, name, webhook_type, tickers, now)]

unregister_webhook(list, url) ==
    LET kept == SelectSeq(list, LAMBDA wh : wh.url # url)
    IN  IF Len(kept) < Len(list)
        THEN [webhooks |-> kept, result |-> TRUE]
        ELSE [webhooks |-> list, result |-> FALSE]

toggle_webhook(list, url, enabled, now) ==
    LET i == IndexOfUrl(list, url)
    IN  IF i # 0
        THEN [webhooks |-> [list EXCEPT ![i] =
                              [list[i] EXCEPT !.enabled = enabled, !.updated_at = now]],
              result |-> TRUE]
        ELSE [webhooks |-> list, result |-> FALSE]

RegisterWebhook(url, name, webhook_type, tickers, now) ==
    /\ webhooks' = register_webhook(webhooks, url, name, webhook_type, tickers, now).webhooks
    /\ call' = [op |-> "register_webhook", url |-> url,
                result |-> <<register_webhook(webhooks, url, name, webhook_type,
                                              tickers, now).result>>]
    /\ UNCHANGED <<tqqq_prices, crossover_signals, signals, status, main, notified, alone,
                    result, uncommitted, config, fetch, db>>

UnregisterWebhook(url) ==
    /\ webhooks' = unregister_webhook(webhooks, url).webhooks
    /\ call' = [op |-> "unregister_webhook", url |-> url,
                result |-> <<unregister_webhook(webhooks, url).result>>]
    /\ UNCHANGED <<tqqq_prices, crossover_signals, signals, status, main, notified, alone,
                    result, uncommitted, config, fetch, db>>

ToggleWebhook(url, enabled, now) ==
    /\ webhooks' = toggle_webhook(webhooks, url, enabled, now).webhooks
    /\ call' = [op |-> "toggle_webhook", url |-> url,
                result |-> <<toggle_webhook(webhooks, url, enabled, now).result>>]
    /\ UNCHANGED <<tqqq_prices, crossover_signals, signals, status, main, notified, alone,
                    result, uncommitted, config, fetch, db>>

NextRegistry ==
    \E url \in Urls, now \in Times :
        \/ \E name \in Names, webhook_type \in WebhookTypes, tickers \in TickerLists :
              RegisterWebhook(url, name, webhook_type, tickers, now)
        \/ UnregisterWebhook(url)
        \/ \E enabled \in BOOLEAN : ToggleWebhook(url, enabled, now)

SpecRegistry == InitLedger /\ [][NextRegistry]_vars

-----------------------------------------------------------------------------
\* SpecMigration: scripts/migrate_multi_ticker.py on a database of the
\* single-ticker schema.  db maps the name of each table to its columns and
\* its rows; of the price columns date and close are kept (open, high, low,
\* adj_close and volume are copied the same way), and the AUTOINCREMENT id of
\* a signal row, which the migration does not copy, is left out.  NULL is NaN.

MaxOldDate == 2

OldDates == 1..MaxOldDate

Table(columns, rows) == [columns |-> columns, rows |-> rows]

\* The old tqqq_prices: date is the primary key.
OldPriceTables ==
    {Table({"date", "close"}, {[date |-> d, close |-> closes[d]] : d \in dates}) :
        dates \in SUBSET OldDates, closes \in [OldDates -> {1, 3}]}

\* The old crossover_signals, UNIQUE(date, signal_type), with the long MA in
\* a column ma30, or ma20, or with no MA column.
OldSignalRow(long_column, d, signal_type) ==
    IF long_column = "ma30"
    THEN [date |-> d, signal_type |-> signal_type, close_price |-> d, ma5 |-> d + 1,
          ma30 |-> d + 2, created_at |-> d]
    ELSE IF long_column = "ma20"
    THEN [date |-> d, signal_type |-> signal_type, close_price |-> d, ma5 |-> d + 1,
          ma20 |-> d + 2, created_at |-> d]
    ELSE [date |-> d, signal_type |-> signal_type, close_price |-> d, created_at |-> d]

OldSignalColumns(long_column) ==
    {"date", "signal_type", "close_price", "created_at"}
        \cup (IF long_column = "none" THEN {} ELSE {"ma5", long_column})

OldSignalTables ==
    {Table(OldSignalColumns(long_column),
           {OldSignalRow(long_column, k[1], k[2]) : k \in keys}) :
        long_column \in {"ma30", "ma20", "none"},
        keys \in SUBSET (OldDates \X SignalTypes)}

OldDatabases ==
    {[name \in {"tqqq_prices", "crossover_signals"} |->
        IF name = "tqqq_prices" THEN prices ELSE sigs] :
            prices \in OldPriceTables, sigs \in OldSignalTables}

\* sqlite_master and the statements that change it.
HasTable(d, name) == name \in DOMAIN d

WithTable(d, name, table) ==
    [n \in DOMAIN d \cup {name} |-> IF n = name THEN table ELSE d[n]]

DropTable(d, name) == [n \in DOMAIN d \ {name} |-> d[n]]

RenameTable(d, from, to) == WithTable(DropTable(d, from), to, d[from])

\* Faulty variant, for comparison: check_migration_needed answering True
\* whatever the columns are.
AlwaysNeeded(d) == TRUE

\* PRAGMA table_info of a missing table has no rows.
check_migration_needed(d) ==
    IF HasTable(d, "tqqq_prices") THEN "ticker" \notin d["tqqq_prices"].columns ELSE TRUE

NewPriceColumns == {"ticker", "date", "close"}
NewSignalColumns == {"ticker", "date", "signal_type", "close_price", "ma5", "ma30", "created_at"}

\* INSERT INTO tqqq_prices_v2 SELECT 'TQQQ', date, ... FROM tqqq_prices
\* Faulty variant, for comparison: MigratedPrices without the close column.
MigratedPricesWithoutClose(rows) ==
    {[ticker |-> "TQQQ", date |-> r.date, close |-> NaN] : r \in rows}

MigratedPrices(rows) ==
    {[ticker |-> "TQQQ", date |-> r.date, close |-> r.close] : r \in rows}

\* INSERT INTO crossover_signals_v2 SELECT 'TQQQ', date, ... FROM crossover_signals
MigratedSignals(columns, rows) ==
    {[ticker |-> "TQQQ", date |-> r.date, signal_type |-> r.signal_type,
      close_price |-> r.close_price,
      ma5 |-> IF "ma30" \in columns \/ "ma20" \in columns THEN r.ma5 ELSE NaN,
      ma30 |-> IF "ma30" \in columns THEN r.ma30
               ELSE IF "ma20" \in columns THEN r.ma20 ELSE NaN,
      created_at |-> r.created_at] : r \in rows}

SameKey(columns, p, q) ==
    /\ p.ticker = q.ticker
    /\ p.date = q.date
    /\ "signal_type" \in columns => p.signal_type = q.signal_type

\* CREATE TABLE IF NOT EXISTS name
CreateIfNotExists(d, name, columns) ==
    IF HasTable(d, name) THEN d ELSE WithTable(d, name, Table(columns, {}))

\* perform_migration: the database it leaves and what it returns or raises.
\* What a failed run had inserted is not committed and is gone when main
\* closes the connection; the CREATE TABLE statements are.
perform_migration(d, dry_run) ==
    IF ~check_migration_needed(d) THEN [db |-> d, result |-> <<TRUE>>]
    ELSE IF ~HasTable(d, "tqqq_prices") /\ ~HasTable(d, "crossover_signals")
    THEN [db |-> d, result |-> <<TRUE>>]
    ELSE IF ~HasTable(d, "tqqq_prices") \/ ~HasTable(d, "crossover_signals")
    THEN [db |-> d, error |-> StorageFault]
    ELSE IF dry_run THEN [db |-> d, result |-> <<TRUE>>]
    ELSE
      LET created == CreateIfNotExists(
                        CreateIfNotExists(d, "tqqq_prices_v2", NewPriceColumns),
                        "crossover_signals_v2", NewSignalColumns)
          prices == MigratedPrices(d["tqqq_prices"].rows)
          sigs == MigratedSignals(d["crossover_signals"].columns,
                                  d["crossover_signals"].rows)
          prices_v2 == created["tqqq_prices_v2"].rows \cup prices
          signals_v2 == created["crossover_signals_v2"].rows \cup sigs
          renamed ==
              RenameTable(RenameTable(
                  RenameTable(RenameTable(
                      WithTable(WithTable(created,
                          "tqqq_prices_v2", Table(NewPriceColumns, prices_v2)),
                          "crossover_signals_v2", Table(NewSignalColumns, signals_v2)),
                      "tqqq_prices", "tqqq_prices_backup"),
                      "crossover_signals", "crossover_signals_backup"),
                  "tqqq_prices_v2", "tqqq_prices"),
                  "crossover_signals_v2", "crossover_signals")
      IN  IF \/ \E p \in created["tqqq_prices_v2"].rows, q \in prices :
                    SameKey(NewPriceColumns, p, q)
             \/ \E p \in created["crossover_signals_v2"].rows, q \in sigs :
                    SameKey(NewSignalColumns, p, q)
          THEN [db |-> created, error |-> StorageFault]
          ELSE IF Cardinality(prices_v2) # Cardinality(d["tqqq_prices"].rows)
          THEN [db |-> created, result |-> <<FALSE>>]
          ELSE IF Cardinality(signals_v2) # Cardinality(d["crossover_signals"].rows)
          THEN [db |-> created, result |-> <<FALSE>>]
          ELSE IF HasTable(d, "tqqq_prices_backup") \/ HasTable(d, "crossover_signals_backup")
          THEN [db |-> created, error |-> StorageFault]
          ELSE [db |-> renamed, result |-> <<TRUE>>]

\* Faulty variant, for comparison: rollback_migration restoring the price table only.
RollbackPricesOnly(d) ==
    IF ~HasTable(d, "tqqq_prices_backup") \/ ~HasTable(d, "crossover_signals_backup")
    THEN [db |-> d, result |-> <<FALSE>>]
    ELSE [db |-> RenameTable(DropTable(d, "tqqq_prices"),
                             "tqqq_prices_backup", "tqqq_prices"),
          result |-> <<TRUE>>]

rollback_migration(d) ==
    IF ~HasTable(d, "tqqq_prices_backup") \/ ~HasTable(d, "crossover_signals_backup")
    THEN [db |-> d, result |-> <<FALSE>>]
    ELSE [db |-> RenameTable(
                    RenameTable(DropTable(DropTable(d, "tqqq_prices"), "crossover_signals"),
                                "tqqq_prices_backup", "tqqq_prices"),
                    "crossover_signals_backup", "crossover_signals"),
          result |-> <<TRUE>>]

\* What the call left in call: its name, and its return value or exception.
Outcome(op, out) ==
    IF "error" \in DOMAIN out THEN [op |-> op, error |-> out.error]
    ELSE [op |-> op, result |-> out.result]

PerformMigration(dry_run) ==
    /\ db' = perform_migration(db, dry_run).db
    /\ call' = Outcome(IF dry_run THEN "perform_migration --dry-run" ELSE "perform_migration",
                       perform_migration(db, dry_run))
    /\ UNCHANGED <<tqqq_prices, crossover_signals, signals, status, main, notified, alone,
                    result, uncommitted, config, fetch, webhooks>>

RollbackMigration ==
    /\ db' = rollback_migration(db).db
    /\ call' = Outcome("rollback_migration", rollback_migration(db))
    /\ UNCHANGED <<tqqq_prices, crossover_signals, signals, status, main, notified, alone,
                    result, uncommitted, config, fetch, webhooks>>

\* fetch_data on the migrated database: save_prices of another ticker's bar,
\* INSERT OR REPLACE on the key (ticker, date).
SavePricesAfterMigration(ticker, date, close) ==
    /\ HasTable(db, "tqqq_prices")
    /\ "ticker" \in db["tqqq_prices"].columns
    /\ db' = [db EXCEPT !["tqqq_prices"].rows =
                {r \in @ : ~(r.ticker = ticker /\ r.date = date)}
                    \cup {[ticker |-> ticker, date |-> date, close |-> close]}]
    /\ call' = [op |-> "save_prices", result |-> <<1>>]
    /\ UNCHANGED <<tqqq_prices, crossover_signals, signals, status, main, notified, alone,
                    result, uncommitted, config, fetch, webhooks>>

InitMigration ==
    /\ tqqq_prices = {}
    /\ crossover_signals = <<>>
    /\ signals = NoResult
    /\ status = NoResult
    /\ call = NoCall
    /\ main = NoScript
    /\ notified = <<>>
    /\ alone = NoScript
    /\ result = NoCall
    /\ uncommitted = <<>>
    /\ config = ShippedConfig
    /\ fetch = NoCall
    /\ webhooks = <<>>
    /\ db \in OldDatabases

NextMigration ==
    \/ \E dry_run \in BOOLEAN : PerformMigration(dry_run)
    \/ RollbackMigration
    \/ \E date \in OldDates : SavePricesAfterMigration("YINN", date, 1)

SpecMigration == InitMigration /\ [][NextMigration]_vars

-----------------------------------------------------------------------------
\* SpecIsolation: the calls of two tickers interleaved on one database, and
\* next to it each ticker's own calls run alone on a database of its own.

\* What the provider has for each ticker after MA_LONG - 1 closes of 2.
SeriesOf(ticker) == IF ticker = "TQQQ" THEN <<3, 1, 3>> ELSE <<1, 3, 3>>

\* The data frames a caller saves: the series so far, or what follows the
\* stored rows.
SavedFrames(table, ticker) ==
    LET last_date == get_last_date(table, ticker)
        series == [i \in 1..(MA_LONG - 1) |-> 2] \o SeriesOf(ticker)
    IN  {[i \in 1..(n - last_date) |-> [date |-> last_date + i, close |-> series[last_date + i]]]
            : n \in {k \in (MA_LONG - 1)..Len(series) : k > last_date}}

\* The batches a caller hands to the ledger: what detect_crossovers returns
\* for either ticker.
DetectedBatches == {detect_crossovers(tqqq_prices, t) : t \in Tickers}

InitIsolation ==
    /\ tqqq_prices = {}
    /\ crossover_signals = <<>>
    /\ signals = NoResult
    /\ status = NoResult
    /\ call = NoCall
    /\ main = NoScript
    /\ notified = <<>>
    /\ alone = [t \in Tickers |-> [tqqq_prices |-> {}, crossover_signals |-> <<>>]]
    /\ result = NoCall
    /\ uncommitted = <<>>
    /\ config = ShippedConfig
    /\ fetch = NoCall
    /\ webhooks = <<>>
    /\ db = NoDatabase

Returned(op, ticker, together, by_itself) ==
    [op |-> op, ticker |-> ticker, together |-> together, alone |-> by_itself]

CallSavePrices(ticker, df) ==
    /\ tqqq_prices' = save_prices(tqqq_prices, ticker, df)
    /\ alone' = [alone EXCEPT ![ticker].tqqq_prices = save_prices(@, ticker, df)]
    /\ result' = Returned("save_prices", ticker, Len(df), Len(df))
    /\ UNCHANGED <<crossover_signals, signals, status, call, main, notified,
                    uncommitted, config, fetch,
                    webhooks, db>>

CallDetectCrossovers(ticker) ==
    /\ result' = Returned("detect_crossovers", ticker,
                           detect_crossovers(tqqq_prices, ticker),
                           detect_crossovers(alone[ticker].tqqq_prices, ticker))
    /\ UNCHANGED <<tqqq_prices, crossover_signals, signals, status, call, main,
                    notified, alone,
                    uncommitted, config, fetch,
                    webhooks, db>>

CallGetCurrentStatus(ticker) ==
    /\ result' = Returned("get_current_status", ticker,
                           get_current_status(tqqq_prices, ticker),
                           get_current_status(alone[ticker].tqqq_prices, ticker))
    /\ UNCHANGED <<tqqq_prices, crossover_signals, signals, status, call, main,
                    notified, alone,
                    uncommitted, config, fetch,
                    webhooks, db>>

CallGetNewSignals(ticker, sigs) ==
    /\ result' = Returned("get_new_signals", ticker,
                           get_new_signals(crossover_signals, ticker, sigs),
                           get_new_signals(alone[ticker].crossover_signals, ticker, sigs))
    /\ UNCHANGED <<tqqq_prices, crossover_signals, signals, status, call, main,
                    notified, alone,
                    uncommitted, config, fetch,
                    webhooks, db>>

CallSaveSignals(ticker, sigs) ==
    LET together == save_signals(crossover_signals, ticker, sigs)
        by_itself == save_signals(alone[ticker].crossover_signals, ticker, sigs)
    IN  /\ crossover_signals' = together.table
        /\ alone' = [alone EXCEPT ![ticker].crossover_signals = by_itself.table]
        /\ result' = Returned("save_signals", ticker, together.saved, by_itself.saved)
        /\ UNCHANGED <<tqqq_prices, signals, status, call, main, notified,
                    uncommitted, config, fetch,
                    webhooks, db>>

NextIsolation ==
    \/ \E ticker \in Tickers :
          \/ \E df \in SavedFrames(tqqq_prices, ticker) : CallSavePrices(ticker, df)
          \/ CallDetectCrossovers(ticker)
          \/ CallGetCurrentStatus(ticker)
    \/ \E sigs \in DetectedBatches : \E ticker \in Tickers :
          \/ CallGetNewSignals(ticker, sigs)
          \/ CallSaveSignals(ticker, sigs)

SpecIsolation == InitIsolation /\ [][NextIsolation]_vars

-----------------------------------------------------------------------------
\* Properties of the detector and the status evaluator (SpecDetect).

StoredRows(ticker) == Cardinality(TickerRows(tqqq_prices, ticker))

\* The dates on which both moving averages are defined, in date order.
DefinedRows(ticker) == dropna(WithMovingAverages(load_prices(tqqq_prices, ticker)))

\* The last stored row with its moving averages.
LastRow(ticker) ==
    LET rows == WithMovingAverages(load_prices(tqqq_prices, ticker))
    IN  rows[Len(rows)]

\* C7: with fewer than MA_LONG stored closes detect_crossovers returns the
\* empty list and get_current_status returns INSUFFICIENT_DATA with the ticker
\* and no date, close, MA or gap field.
C7_InsufficientHistory ==
    StoredRows("TQQQ") < MA_LONG =>
        /\ signals # NoResult => signals[1] = <<>>
        /\ status # NoResult =>
              /\ DOMAIN status[1] = {"ticker", "status"}
              /\ status[1].status = "INSUFFICIENT_DATA"
              /\ status[1].ticker = "TQQQ"

C7_Witness ==
    /\ StoredRows("TQQQ") = MA_LONG - 1
    /\ signals = <<(<<>>)>>
    /\ status # NoResult
    /\ status[1].status = "INSUFFICIENT_DATA"

\* C8: taken in date order, the signals detect_crossovers returns never hold
\* two consecutive signals of one kind, and no date carries two signals.
C8_StrictAlternation ==
    signals # NoResult =>
        LET s == signals[1]
        IN  /\ \A i, j \in 1..Len(s) : i # j => s[i].date # s[j].date
            /\ \A i, j \in 1..Len(s) :
                  (/\ s[i].date < s[j].date
                   /\ ~\E k \in 1..Len(s) : s[i].date < s[k].date /\ s[k].date < s[j].date)
                  => s[i].signal_type # s[j].signal_type

C8_Witness ==
    /\ signals # NoResult
    /\ Len(signals[1]) >= 3
    /\ \E i, j \in 1..Len(signals[1]) :
          i # j /\ signals[1][i].signal_type = signals[1][j].signal_type

\* C9 as claimed: the list detect_crossovers returns is ascending by date.
C9_AscendingByDate ==
    signals # NoResult =>
        \A i, j \in 1..Len(signals[1]) : i < j => signals[1][i].date < signals[1][j].date

\* C9 as amended: the list holds exactly one entry per transition of the
\* short-above state between two consecutive defined dates, grouped by kind:
\* every GOLDEN_CROSS before every DEAD_CROSS, each group ascending by date.
C9_GroupedByKindThenDate ==
    signals # NoResult /\ StoredRows("TQQQ") >= MA_LONG =>
        LET s == signals[1]
            rows == DefinedRows("TQQQ")
            flips == {i \in 2..Len(rows) : ShortAbove(rows[i]) # ShortAbove(rows[i - 1])}
        IN  /\ \A i, j \in 1..Len(s) : i < j =>
                  /\ s[i].signal_type = s[j].signal_type => s[i].date < s[j].date
                  /\ s[i].signal_type = "DEAD_CROSS" => s[j].signal_type = "DEAD_CROSS"
            /\ Len(s) = Cardinality(flips)
            /\ \A i \in flips : \E k \in 1..Len(s) : s[k].date = rows[i].date

C9_Witness ==
    /\ signals # NoResult
    /\ \E i, j \in 1..Len(signals[1]) :
          /\ i < j
          /\ signals[1][i].signal_type = "GOLDEN_CROSS"
          /\ signals[1][j].signal_type = "DEAD_CROSS"
          /\ signals[1][j].date < signals[1][i].date

\* C10: a history of at least MA_LONG closes whose short MA equals its long MA
\* on every defined date yields no signal, and the status is BEARISH whenever
\* the two MAs are equal on the most recent date.
C10_EqualityIsNotAbove ==
    StoredRows("TQQQ") >= MA_LONG =>
        LET rows == DefinedRows("TQQQ")
            last == LastRow("TQQQ")
        IN  /\ (/\ signals # NoResult
                 /\ rows # <<>>
                 /\ \A i \in 1..Len(rows) : rows[i].MA_SHORT = rows[i].MA_LONG)
                => signals[1] = <<>>
            /\ (/\ status # NoResult
                 /\ last.MA_SHORT # NaN
                 /\ last.MA_SHORT = last.MA_LONG)
                => status[1].status = "BEARISH"

C10_Witness ==
    /\ StoredRows("TQQQ") > MA_LONG
    /\ \A r \in tqqq_prices : r.close = 2
    /\ signals = <<(<<>>)>>
    /\ status # NoResult
    /\ status[1].status = "BEARISH"
    /\ status[1].gap = 0

\* The mean of the closes stored for the window dates that end on date d, times
\* MA_SHORT * MA_LONG, read from the table itself; NaN when a date of the
\* window is missing or holds no close.
RECURSIVE SumOfCloses(_, _, _)
SumOfCloses(ticker, first, d) ==
    IF d < first THEN 0
    ELSE (CHOOSE r \in TickerRows(tqqq_prices, ticker) : r.date = d).close
            + SumOfCloses(ticker, first, d - 1)

TrailingMean(ticker, d, window) ==
    IF \E k \in (d - window + 1)..d :
          ~\E r \in TickerRows(tqqq_prices, ticker) : r.date = k /\ r.close # NaN
    THEN NaN
    ELSE SumOfCloses(ticker, d - window + 1, d) * ((MA_SHORT * MA_LONG) \div window)

\* C11: a date on which the short MA equals the long MA carries no signal, and
\* every DEAD_CROSS that detect_crossovers returns has ma5 < ma30.
C11_NoSignalAtEquality ==
    signals # NoResult =>
        \A i \in 1..Len(signals[1]) :
            /\ signals[1][i].ma5 # signals[1][i].ma30
            /\ signals[1][i].signal_type = "DEAD_CROSS" => signals[1][i].ma5 < signals[1][i].ma30

\* C12: every signal carries the means of the trailing MA_SHORT and MA_LONG
\* closes up to and including its date and the close of that date; a
\* GOLDEN_CROSS has ma5 > ma30 and a DEAD_CROSS has ma5 <= ma30.
C12_SignalsCarryTheirAverages ==
    signals # NoResult =>
        \A i \in 1..Len(signals[1]) :
            LET s == signals[1][i]
            IN  /\ s.ma5 # NaN /\ s.ma30 # NaN
                /\ s.ma5 = TrailingMean("TQQQ", s.date, MA_SHORT)
                /\ s.ma30 = TrailingMean("TQQQ", s.date, MA_LONG)
                /\ [ticker |-> "TQQQ", date |-> s.date, close |-> s.close_price] \in tqqq_prices
                /\ s.signal_type = "GOLDEN_CROSS" => s.ma5 > s.ma30
                /\ s.signal_type = "DEAD_CROSS" => s.ma5 <= s.ma30

\* A golden cross and a dead cross were returned, the dead cross with its
\* short MA strictly below its long MA.
C12_Witness ==
    /\ signals # NoResult
    /\ \E i, j \in 1..Len(signals[1]) :
          /\ signals[1][i].signal_type = "GOLDEN_CROSS"
          /\ signals[1][j].signal_type = "DEAD_CROSS"
          /\ signals[1][j].ma5 < signals[1][j].ma30

\* C13: with at least MA_LONG stored closes get_current_status reports the most
\* recent stored date with its close and the two trailing means on that date;
\* the status is BULLISH exactly when the short MA is above the long MA and
\* BEARISH otherwise, and gap is the short MA minus the long MA (NaN when an
\* MA is NaN).
C13_StatusOfMostRecentDate ==
    (status # NoResult /\ StoredRows("TQQQ") >= MA_LONG) =>
        LET st == status[1]
            short == TrailingMean("TQQQ", st.date, MA_SHORT)
            long == TrailingMean("TQQQ", st.date, MA_LONG)
        IN  /\ st.ticker = "TQQQ"
            /\ \A r \in tqqq_prices : r.date <= st.date
            /\ [ticker |-> "TQQQ", date |-> st.date, close |-> st.close] \in tqqq_prices
            /\ st.ma_short = short
            /\ st.ma_long = long
            /\ st.status \in {"BULLISH", "BEARISH"}
            /\ st.status = "BULLISH" <=> (short # NaN /\ long # NaN /\ short > long)
            /\ st.gap = IF short = NaN \/ long = NaN THEN NaN ELSE short - long

\* A bullish status with a positive gap on the last of more than MA_LONG dates,
\* where the date before it was not bullish.
C13_Witness ==
    /\ status # NoResult
    /\ StoredRows("TQQQ") > MA_LONG
    /\ status[1].status = "BULLISH"
    /\ status[1].gap > 0
    /\ status[1].date = StoredRows("TQQQ")
    /\ ~ShortAbove(WithMovingAverages(load_prices(tqqq_prices, "TQQQ"))[StoredRows("TQQQ") - 1])

C25_FirstDefinedDateIsSilent ==
    (signals # NoResult /\ Len(DefinedRows("TQQQ")) > 0) =>
        \A i \in 1..Len(signals[1]) : signals[1][i].date # DefinedRows("TQQQ")[1].date

\* Detection ran on a history whose first defined date has the short MA not
\* above the long MA, and returned a signal for a later date.
C25_Witness ==
    /\ signals # NoResult
    /\ Len(DefinedRows("TQQQ")) > 1
    /\ ~ShortAbove(DefinedRows("TQQQ")[1])
    /\ Len(signals[1]) > 0

\* The signal with the latest date among those detect_crossovers returned.
LatestSignal(sigs) ==
    CHOOSE s \in {sigs[i] : i \in 1..Len(sigs)} :
        \A i \in 1..Len(sigs) : sigs[i].date <= s.date

\* C28: on a history of at least MA_LONG closes for which detect_crossovers
\* returns signals, get_current_status is BULLISH exactly when the latest-dated
\* signal is a GOLDEN_CROSS and BEARISH exactly when it is a DEAD_CROSS.
C28_DetectionAndStatusAgree ==
    (signals # NoResult /\ status # NoResult /\ StoredRows("TQQQ") >= MA_LONG
        /\ Len(signals[1]) > 0) =>
        /\ status[1].status = "BULLISH" <=> LatestSignal(signals[1]).signal_type = "GOLDEN_CROSS"
        /\ status[1].status = "BEARISH" <=> LatestSignal(signals[1]).signal_type = "DEAD_CROSS"

-----------------------------------------------------------------------------
\* Properties of a growing history (SpecGrow).

\* Every stored row is kept and every added row is dated after all of them.
OnlyGrows(before, after, ticker) ==
    /\ before \subseteq after
    /\ \A r \in after \ before :
          r.ticker = ticker /\ \A q \in TickerRows(before, ticker) : q.date < r.date

\* Every signal of the sequence earlier is in the sequence later, field by field.
AllKept(earlier, later) ==
    \A i \in 1..Len(earlier) : \E j \in 1..Len(later) : later[j] = earlier[i]

\* C29: when a step only appends closes for later dates, detect_crossovers on
\* the extended history returns every signal it returned on the history
\* before the step, with the same date, kind, close and MA values.
C29_DetectionIsPrefixStable ==
    [][OnlyGrows(tqqq_prices, tqqq_prices', "TQQQ") =>
          AllKept(detect_crossovers(tqqq_prices, "TQQQ"),
                  detect_crossovers(tqqq_prices', "TQQQ"))]_vars

\* Signals were detected, then later dates were appended, and the detector on
\* the extended history returns those signals and a new one.
C29_Witness ==
    /\ signals # NoResult
    /\ Len(signals[1]) > 0
    /\ call.op = "save_prices"
    /\ \A i \in 1..Len(signals[1]) : signals[1][i].date < call.df[1].date
    /\ Len(detect_crossovers(tqqq_prices, "TQQQ")) > Len(signals[1])

-----------------------------------------------------------------------------
\* Properties of the ledger (SpecLedger).

KeyOf(row) == <<row.ticker, row.date, row.signal_type>>

LedgerKeys == {KeyOf(crossover_signals[i]) : i \in 1..Len(crossover_signals)}

\* C1: the ledger holds at most one row per (ticker, date, signal_type).
C1_OneRowPerKey ==
    \A i, j \in 1..Len(crossover_signals) :
        KeyOf(crossover_signals[i]) = KeyOf(crossover_signals[j]) => i = j

\* A batch that repeats a signal, within itself or from an earlier batch, was
\* saved next to rows of both tickers.
C1_Witness ==
    /\ call.op = "save_signals"
    /\ call.result < Len(call.signals)
    /\ \E i, j \in 1..Len(crossover_signals) :
          /\ crossover_signals[i].ticker # crossover_signals[j].ticker
          /\ crossover_signals[i].signal_type = crossover_signals[j].signal_type

\* C4: save_signals returns the number of rows it inserted; a signal whose key
\* is in the ledger inserts nothing, changes nothing and counts 0, so a single
\* new signal counts 1 and the same call made again counts 0.
C4_SavedCountsInsertedRows ==
    [][call'.op = "save_signals" =>
        LET before == crossover_signals
            after == crossover_signals'
            batch == call'.signals
            present(s) == <<call'.ticker, s.date, s.signal_type>> \in LedgerKeys
        IN  /\ call'.result = Len(after) - Len(before)
            /\ SubSeq(after, 1, Len(before)) = before
            /\ (\A i \in 1..Len(batch) : present(batch[i]))
                  => call'.result = 0 /\ after = before
            /\ (Len(batch) = 1 /\ ~present(batch[1])) => call'.result = 1
            /\ (call.op = "save_signals" /\ call.ticker = call'.ticker
                    /\ call.signals = batch)
                  => call'.result = 0
    ]_vars

\* One signal was saved when its key was already in the ledger: the count is 0.
C4_Witness ==
    /\ call.op = "save_signals"
    /\ Len(call.signals) = 1
    /\ call.result = 0
    /\ Cardinality({i \in 1..Len(crossover_signals) :
            KeyOf(crossover_signals[i])
                = <<call.ticker, call.signals[1].date, call.signals[1].signal_type>>}) = 1

\* C5: get_new_signals returns the candidates whose (ticker, date, signal_type)
\* is not in the ledger, in their input order, and leaves the ledger as it was.
C5_NewSignalsAreTheAbsentOnes ==
    /\ [](call.op = "get_new_signals" =>
            call.result = SelectSeq(call.signals,
                LAMBDA s : <<call.ticker, s.date, s.signal_type>> \notin LedgerKeys))
    /\ [][call'.op = "get_new_signals" => crossover_signals' = crossover_signals]_vars

\* Some candidates were returned and some were filtered out, while the other
\* ticker has a row with the date and kind of a returned candidate.
C5_Witness ==
    /\ call.op = "get_new_signals"
    /\ Len(call.result) > 0
    /\ Len(call.result) < Len(call.signals)
    /\ \E i \in 1..Len(crossover_signals) :
          /\ crossover_signals[i].ticker # call.ticker
          /\ crossover_signals[i].date = call.result[1].date
          /\ crossover_signals[i].signal_type = call.result[1].signal_type

\* C17: the ledger is append-only.  Every step of get_new_signals or
\* save_signals leaves each row of the ledger in its place (its id) with the
\* columns it was inserted with, also when its key is saved again with other
\* close_price, ma5 or ma30 values; rows are only ever added after the last.
C17_LedgerIsAppendOnly ==
    [][/\ Len(crossover_signals') >= Len(crossover_signals)
       /\ \A i \in 1..Len(crossover_signals) : crossover_signals'[i] = crossover_signals[i]
      ]_vars

\* The golden cross of TQQQ is in the ledger with close 1, below a later row,
\* and was just saved again with close 3: nothing was inserted.
C17_Witness ==
    /\ call.op = "save_signals"
    /\ call.ticker = "TQQQ"
    /\ call.signals = <<PoolSignal("TQQQ", "GOLDEN_CROSS", 3)>>
    /\ call.result = 0
    /\ Len(crossover_signals) >= 2
    /\ crossover_signals[1] = LedgerRow("TQQQ", PoolSignal("TQQQ", "GOLDEN_CROSS", 1))

-----------------------------------------------------------------------------
\* Properties of the ledger calls under storage faults (SpecConnection).

Raised(c) == "error" \in DOMAIN c

\* The rows a batch adds to a ledger: one for each key the ledger does not
\* hold, made of the first signal of the batch with that key.
RECURSIVE NewRowsOf(_, _, _, _)
NewRowsOf(keys, ticker, batch, i) ==
    IF i > Len(batch) THEN <<>>
    ELSE LET key == <<ticker, batch[i].date, batch[i].signal_type>>
         IN  IF key \in keys THEN NewRowsOf(keys, ticker, batch, i + 1)
             ELSE <<[ticker |-> ticker, date |-> batch[i].date,
                     signal_type |-> batch[i].signal_type,
                     close_price |-> batch[i].close_price,
                     ma5 |-> batch[i].ma5, ma30 |-> batch[i].ma30]>>
                  \o NewRowsOf(keys \cup {key}, ticker, batch, i + 1)

\* C15: save_signals is atomic per batch.  A call that raised leaves the
\* committed ledger as it was, and the committed ledger only ever changes by
\* a save_signals call that did not raise, which adds exactly the new rows of
\* its own batch; so no row of a failed batch is committed by a later commit.
C15_AtomicPerBatch ==
    [][/\ Raised(call') => crossover_signals' = crossover_signals
       /\ crossover_signals' # crossover_signals =>
            /\ call'.op = "save_signals"
            /\ ~Raised(call')
            /\ crossover_signals' =
                  crossover_signals \o NewRowsOf(LedgerKeys, call'.ticker, call'.signals, 1)
      ]_vars

-----------------------------------------------------------------------------
\* Properties of the price store (SpecPrices).

\* C18: the price store holds at most one row per (ticker, date).  A
\* save_prices call leaves every other row as it was, deletes nothing, and
\* leaves for each date of its frame the one row with the close the frame
\* gives that date last; saving the same frame again changes nothing.
C18_PriceStoreIsAnUpsert ==
    /\ [](\A r1, r2 \in tqqq_prices :
            (r1.ticker = r2.ticker /\ r1.date = r2.date) => r1 = r2)
    /\ [][call'.op = "save_prices" =>
            LET df == call'.df
                t == call'.ticker
                saved == {df[i].date : i \in 1..Len(df)}
            IN  /\ \A r \in tqqq_prices :
                      /\ \E r2 \in tqqq_prices' : r2.ticker = r.ticker /\ r2.date = r.date
                      /\ (r.ticker # t \/ r.date \notin saved) => r \in tqqq_prices'
                /\ \A r \in tqqq_prices' :
                      r \in tqqq_prices \/ (r.ticker = t /\ r.date \in saved)
                /\ \A i \in 1..Len(df) :
                      (\A j \in (i + 1)..Len(df) : df[j].date # df[i].date) =>
                          [ticker |-> t, date |-> df[i].date, close |-> df[i].close]
                              \in tqqq_prices'
                /\ call'.result = Len(df)
                /\ save_prices(tqqq_prices', t, df) = tqqq_prices'
       ]_vars

\* Both tickers hold a close on date 1, TQQQ's is 1 and YINN's was just saved
\* as 3 by a frame that gives date 1 first the close 1 and then the close 3.
C18_Witness ==
    /\ call.op = "save_prices"
    /\ call.ticker = "YINN"
    /\ call.df = <<[date |-> 1, close |-> 1], [date |-> 1, close |-> 3]>>
    /\ [ticker |-> "YINN", date |-> 1, close |-> 3] \in tqqq_prices
    /\ [ticker |-> "TQQQ", date |-> 1, close |-> 1] \in tqqq_prices
    /\ \E r \in tqqq_prices : r.ticker = "YINN" /\ r.date = 2

-----------------------------------------------------------------------------
\* Properties of start-up (SpecConfig) and of the parallel fetch (SpecFetch).

\* C19: detect_crossovers and get_current_status never execute with a short
\* window that is not below the long window.
C19_WindowsOrderedWhenDetecting ==
    config.pc \in {"detect_crossovers", "get_current_status"} =>
        config.MA_SHORT < config.MA_LONG

\* C20: when fetch_all_tickers_parallel returns, every requested ticker was
\* fetched, the result maps exactly the tickers with a fetch that succeeded,
\* each to a data frame fetched for that very ticker, and a ticker all of
\* whose fetches raised is not in it.
C20_ResultsAreTheSucceededFetches ==
    (fetch # NoCall /\ fetch.pc = "returned") =>
        LET succeeded == {i \in DOMAIN fetch.futures : ~fetch.futures[i].outcome.raised}
        IN  /\ \A i \in DOMAIN fetch.futures : fetch.futures[i].state = "FINISHED"
            /\ DOMAIN fetch.results = {fetch.tickers[i] : i \in succeeded}
            /\ \A t \in DOMAIN fetch.results :
                  \E i \in succeeded :
                      /\ fetch.tickers[i] = t
                      /\ fetch.results[t] = fetch.futures[i].outcome
                      /\ fetch.results[t].ticker = t

\* The call returned YINN's data frame and not TQQQ, whose fetch was submitted
\* first and raised; YINN's future was yielded before TQQQ's.
C20_Witness ==
    /\ fetch # NoCall
    /\ fetch.pc = "returned"
    /\ fetch.tickers[1] = "TQQQ"
    /\ fetch.futures[1].outcome.raised
    /\ DOMAIN fetch.results = {"YINN"}
    /\ fetch.yielded[1] # 1

-----------------------------------------------------------------------------
\* Properties of the polling cycle (Spec).

\* Nothing that detect_crossovers finds in the stored history is new.
NothingNewIn(prices, ledger, ticker) ==
    get_new_signals(ledger, ticker, detect_crossovers(prices, ticker)) = <<>>

NothingNew(ticker) == NothingNewIn(tqqq_prices, crossover_signals, ticker)

TimesNotified(signal) ==
    Cardinality({i \in 1..Len(notified) : KeyOf(notified[i]) = KeyOf(signal)})

\* C2: the polling cycle converges.  The step that ends a cycle's detect,
\* get_new_signals and save_signals leaves nothing new for its ticker; while
\* the ticker's stored history is unchanged nothing becomes new again; and a
\* later cycle's get_new_signals then returns the empty list, so the cycle
\* stops without saving.
C2_PollingConverges ==
    [][\A p \in DOMAIN main : \A ticker \in Tickers :
        /\ (main[p].pc = "save" /\ main[p].ticker = ticker /\ main'[p].pc # "save")
              => NothingNewIn(tqqq_prices', crossover_signals', ticker)
        /\ (main[p].pc = "detect" /\ main[p].ticker = ticker /\ main'[p].pc = "idle")
              => NothingNewIn(tqqq_prices', crossover_signals', ticker)
        /\ (/\ NothingNew(ticker)
             /\ TickerRows(tqqq_prices', ticker) = TickerRows(tqqq_prices, ticker))
              => NothingNewIn(tqqq_prices', crossover_signals', ticker)
        /\ (/\ main[p].pc = "detect" /\ main[p].ticker = ticker
             /\ main'[p].pc # "detect" /\ NothingNew(ticker))
              => main'[p] = Idle
    ]_vars

\* A later cycle is about to detect: two signals are recorded, the history
\* holds two crossovers, and none of them is new.
C2_Witness ==
    /\ main["cron"].pc = "detect"
    /\ Len(crossover_signals) >= 2
    /\ Len(detect_crossovers(tqqq_prices, "TQQQ")) >= 2
    /\ NothingNew("TQQQ")

\* C16: a storage fault inside get_new_signals or save_signals ends the cycle
\* with the error.  The step that raises records nothing and notifies
\* nothing, the batch it was about is still new afterwards, a cycle goes on to
\* notify only with its whole batch recorded, and no signal is ever handed to
\* trigger_all_notifications without being in the ledger.
C16_FaultEndsTheCycle ==
    /\ [](\A i \in 1..Len(notified) : KeyOf(notified[i]) \in LedgerKeys)
    /\ [][\A p \in DOMAIN main :
            LET keys_after == {KeyOf(crossover_signals'[i]) : i \in 1..Len(crossover_signals')}
            IN  /\ (main'[p] # main[p] /\ Raised(main'[p])) =>
                      /\ crossover_signals' = crossover_signals
                      /\ notified' = notified
                      /\ main[p].pc = "save" =>
                            \A k \in 1..Len(main[p].new_signals) :
                                KeyOf(main[p].new_signals[k]) \notin keys_after
                /\ (main[p].pc = "save" /\ main'[p].pc = "notify") =>
                      \A k \in 1..Len(main[p].new_signals) :
                          KeyOf(main[p].new_signals[k]) \in keys_after
                /\ (main[p].pc \in {"detect", "save"} /\ main'[p].pc \notin {"save", "notify"}
                        /\ ~NothingNewIn(tqqq_prices', crossover_signals', main[p].ticker))
                      => Raised(main'[p])
       ]_vars

\* A cycle that had found a new signal ended with the error while an earlier
\* cycle's signal was recorded and notified: the new signal is still new.
C16_Witness ==
    /\ Raised(main["cron"])
    /\ Len(crossover_signals) >= 1
    /\ Len(notified) >= 1
    /\ \A i \in 1..Len(notified) : KeyOf(notified[i]) \in LedgerKeys
    /\ ~NothingNew("TQQQ")

FailedBatch == IF Raised(call) /\ call.op = "save_signals" THEN call.signals ELSE <<>>

StillNew(prices, ledger, ticker, batch) ==
    \A k \in 1..Len(batch) :
        /\ \E j \in 1..Len(detect_crossovers(prices, ticker)) :
              detect_crossovers(prices, ticker)[j] = batch[k]
        /\ KeyOf(batch[k]) \notin {KeyOf(ledger[i]) : i \in 1..Len(ledger)}

C27_OverlappingCyclesNotifyOnce ==
    \A i \in 1..Len(notified) : TimesNotified(notified[i]) <= 1

-----------------------------------------------------------------------------
\* Properties of the webhook registry (SpecRegistry).

\* C21: the registry holds at most one entry per url; register_webhook with a
\* registered url changes that entry where it is, keeping its id, its enabled
\* flag and its created_at, and returns it, and with a new url adds one
\* enabled entry at the end; unregister_webhook returns True exactly when the
\* url had an entry, and afterwards the url has none and the other entries
\* are as they were.
C21_RegistryIsKeyedByUrl ==
    /\ [](\A i, j \in 1..Len(webhooks) : webhooks[i].url = webhooks[j].url => i = j)
    /\ [][LET url == call'.url
               i == IndexOfUrl(webhooks, url)
           IN  /\ call'.op = "register_webhook" =>
                     IF i # 0
                     THEN /\ Len(webhooks') = Len(webhooks)
                          /\ webhooks'[i].url = url
                          /\ webhooks'[i].id = webhooks[i].id
                          /\ webhooks'[i].enabled = webhooks[i].enabled
                          /\ webhooks'[i].created_at = webhooks[i].created_at
                          /\ \A j \in 1..Len(webhooks) : j # i => webhooks'[j] = webhooks[j]
                          /\ call'.result = <<webhooks'[i]>>
                     ELSE /\ Len(webhooks') = Len(webhooks) + 1
                          /\ webhooks'[Len(webhooks')].url = url
                          /\ webhooks'[Len(webhooks')].enabled
                          /\ SubSeq(webhooks', 1, Len(webhooks)) = webhooks
                          /\ call'.result = <<webhooks'[Len(webhooks')]>>
               /\ call'.op = "unregister_webhook" =>
                     /\ call'.result = <<i # 0>>
                     /\ IndexOfUrl(webhooks', url) = 0
                     /\ webhooks' = SelectSeq(webhooks, LAMBDA wh : wh.url # url)
                     /\ i # 0 => Len(webhooks') = Len(webhooks) - 1
       ]_vars

\* The first of two entries was disabled and then registered again at a
\* later time: it is still first, still disabled, with its id and created_at.
C21_Witness ==
    /\ Len(webhooks) = 2
    /\ call.op = "register_webhook"
    /\ call.url = webhooks[1].url
    /\ webhooks[1].id = 1
    /\ ~webhooks[1].enabled
    /\ webhooks[1].created_at < webhooks[1].updated_at

\* C30: the entries of the registry have pairwise distinct ids.
C30_IdsAreDistinct ==
    \A i, j \in 1..Len(webhooks) : webhooks[i].id = webhooks[j].id => i = j

-----------------------------------------------------------------------------
\* Properties of the schema migration (SpecMigration).

\* The two tables exist in the single-ticker schema, or in the multi-ticker one.
OldSchema(d) ==
    /\ HasTable(d, "tqqq_prices") /\ HasTable(d, "crossover_signals")
    /\ "ticker" \notin d["tqqq_prices"].columns

AlreadyMigrated(d) ==
    /\ HasTable(d, "tqqq_prices") /\ HasTable(d, "crossover_signals")
    /\ "ticker" \in d["tqqq_prices"].columns

\* The new signal row q holds the old row r: its date, kind, close and time of
\* creation, and its averages where the old table had them.
HoldsOldSignal(columns, q, r) ==
    /\ q.ticker = "TQQQ"
    /\ q.date = r.date /\ q.signal_type = r.signal_type
    /\ q.close_price = r.close_price /\ q.created_at = r.created_at
    /\ "ma30" \in columns => q.ma5 = r.ma5 /\ q.ma30 = r.ma30
    /\ "ma20" \in columns => q.ma5 = r.ma5 /\ q.ma30 = r.ma20

\* C22: perform_migration without dry_run on a database of the old schema
\* returns True; afterwards tqqq_prices and crossover_signals have the ticker
\* column, as many rows as before, every row with ticker TQQQ, every old row
\* there with its date and values, and the old tables are
\* tqqq_prices_backup and crossover_signals_backup.
C22_MigrationMovesEveryRow ==
    [][(call'.op = "perform_migration" /\ OldSchema(db)) =>
          /\ ~Raised(call') /\ call'.result = <<TRUE>>
          /\ AlreadyMigrated(db')
          /\ "ticker" \in db'["crossover_signals"].columns
          /\ Cardinality(db'["tqqq_prices"].rows) = Cardinality(db["tqqq_prices"].rows)
          /\ Cardinality(db'["crossover_signals"].rows)
                = Cardinality(db["crossover_signals"].rows)
          /\ \A q \in db'["tqqq_prices"].rows \cup db'["crossover_signals"].rows :
                q.ticker = "TQQQ"
          /\ \A r \in db["tqqq_prices"].rows :
                [ticker |-> "TQQQ", date |-> r.date, close |-> r.close]
                    \in db'["tqqq_prices"].rows
          /\ \A r \in db["crossover_signals"].rows :
                \E q \in db'["crossover_signals"].rows :
                    HoldsOldSignal(db["crossover_signals"].columns, q, r)
          /\ HasTable(db', "tqqq_prices_backup")
          /\ HasTable(db', "crossover_signals_backup")
          /\ db'["tqqq_prices_backup"] = db["tqqq_prices"]
          /\ db'["crossover_signals_backup"] = db["crossover_signals"]
    ]_vars

\* A database with a price row on every date and a signal table that had its
\* long MA in the column ma20 has been migrated.
C22_Witness ==
    /\ call.op = "perform_migration"
    /\ call.result = <<TRUE>>
    /\ AlreadyMigrated(db)
    /\ HasTable(db, "crossover_signals_backup")
    /\ "ma20" \in db["crossover_signals_backup"].columns
    /\ Cardinality(db["tqqq_prices"].rows) = MaxOldDate
    /\ \E q \in db["tqqq_prices"].rows : q.close = 3
    /\ Cardinality(db["crossover_signals"].rows) >= 2

\* C23: perform_migration on a database that is already migrated returns
\* True, raises nothing and leaves every table and row as it was.
C23_MigrationIsIdempotent ==
    [][(call'.op \in {"perform_migration", "perform_migration --dry-run"}
            /\ AlreadyMigrated(db)) =>
          /\ ~Raised(call') /\ call'.result = <<TRUE>>
          /\ db' = db
    ]_vars

\* perform_migration has returned True on a migrated database that already
\* held a bar saved after the migration.
C23_Witness ==
    /\ call.op = "perform_migration"
    /\ call.result = <<TRUE>>
    /\ AlreadyMigrated(db)
    /\ HasTable(db, "tqqq_prices_backup")
    /\ \E q \in db["tqqq_prices"].rows : q.ticker = "YINN"
    /\ \E q \in db["tqqq_prices"].rows : q.ticker = "TQQQ"

\* C24: the migration leaves the old tables as the backup tables;
\* rollback_migration with both backup tables returns True and puts them
\* back as tqqq_prices and crossover_signals, without a ticker column and
\* with the rows they had, and leaves no backup table; without them it
\* returns False and changes nothing.
C24_RollbackRestoresTheOldSchema ==
    [][/\ (call'.op = "perform_migration" /\ OldSchema(db)) =>
             /\ HasTable(db', "tqqq_prices_backup")
             /\ HasTable(db', "crossover_signals_backup")
             /\ db'["tqqq_prices_backup"] = db["tqqq_prices"]
             /\ db'["crossover_signals_backup"] = db["crossover_signals"]
       /\ call'.op = "rollback_migration" =>
             IF HasTable(db, "tqqq_prices_backup") /\ HasTable(db, "crossover_signals_backup")
             THEN /\ call'.result = <<TRUE>>
                  /\ DOMAIN db' = {"tqqq_prices", "crossover_signals"}
                  /\ db'["tqqq_prices"] = db["tqqq_prices_backup"]
                  /\ db'["crossover_signals"] = db["crossover_signals_backup"]
                  /\ "ticker" \notin db'["tqqq_prices"].columns
                  /\ Cardinality(db'["tqqq_prices"].rows)
                        = Cardinality(db["tqqq_prices_backup"].rows)
             ELSE /\ call'.result = <<FALSE>>
                  /\ db' = db
    ]_vars

\* A migrated database that had taken another ticker's bar has been rolled
\* back: the old schema with a price row on every date and a signal.
C24_Witness ==
    /\ call.op = "rollback_migration"
    /\ call.result = <<TRUE>>
    /\ OldSchema(db)
    /\ ~HasTable(db, "tqqq_prices_backup")
    /\ Cardinality(db["tqqq_prices"].rows) = MaxOldDate
    /\ Cardinality(db["crossover_signals"].rows) >= 1

-----------------------------------------------------------------------------
\* Properties of two tickers on one database (SpecIsolation).

LedgerRowsOf(table, ticker) == SelectSeq(table, LAMBDA row : row.ticker = ticker)

====
